---- MODULE Spec2Model ----
(***************************************************************************)
(* A model of run_spec.py, the conformance test runner of zigsh:           *)
(* parse_spec_file (the spec-file parser), run_case (the case runner) and  *)
(* main (the report aggregator).                                           *)
(*                                                                         *)
(* Text is modelled structurally.  A line is the sequence of its words     *)
(* (the words are separated by single spaces, the trailing newline is      *)
(* implicit), a text is the sequence of its lines, so "".join(lines) is    *)
(* the sequence of the lines and  group + "\n"  is a text of one line.     *)
(* Python's None / value is the empty / one-element sequence.              *)
(* Python indexes lines from 0, the model from 1:  i < len(lines)  is      *)
(* i <= Len(lines).                                                        *)
(***************************************************************************)
EXTENDS Integers, Sequences, FiniteSets, TLC

VARIABLES
    lines,              \* f.readlines()
    pc,                 \* position of the program
    i,                  \* parse_spec_file: index of the current line
    name,               \* parse_spec_file: locals of the case being parsed
    code_lines,
    code,
    expect_stdout,
    expect_stdout_json,
    expect_status,
    n_i_dash,
    stdout_lines,
    blk,                \* which of the four block-capture loops is running
    cases,              \* parse_spec_file: the result list
    argv_file,          \* main: whether sys.argv names a spec file
    only_failures,      \* main: "--only-failures" in sys.argv
    k,                  \* main: index of the case of the for loop
    passed, failed, ni, errors, timeouts,
    failures,
    out,                \* what main has printed, line by line
    ret,                \* the value main returns
    exit_status,        \* the exit status of the process
    tmpfile,            \* run_case: whether the temporary script exists
    children,           \* history: what the child of every run_case call did
    results             \* history: (result, msg) of every run_case call

parseVars == <<lines, pc, i, name, code_lines, code, expect_stdout,
               expect_stdout_json, expect_status, n_i_dash, stdout_lines,
               blk, cases>>
caseVars  == <<name, code_lines, code, expect_stdout, expect_stdout_json,
               expect_status, n_i_dash, stdout_lines, blk>>
mainVars  == <<argv_file, only_failures, k, passed, failed, ni, errors,
               timeouts, failures, out, ret, exit_status, tmpfile, children,
               results>>
vars == <<parseVars, mainVars>>

None == <<>>
Some(v) == <<v>>

-----------------------------------------------------------------------------
(* Bounds of the model.                                                    *)

\* longest spec file over the structural lines
MaxLines == 4
\* most lines after the header in a one-header file over all the lines
MaxAnnot == 3

-----------------------------------------------------------------------------
(* The lines the model reads.                                              *)

Header       == <<"####", "a">>
Plain        == <<"echo">>
StdoutOpen   == <<"##", "STDOUT:">>
EndMark      == <<"##", "END">>
OkDashOpen   == <<"##", "OK", "dash", "STDOUT:">>
NIDashOpen   == <<"##", "N-I", "dash", "STDOUT:">>
OtherOpen    == <<"##", "OK", "bash", "STDOUT:">>
NIDashBare   == <<"##", "N-I", "dash">>
CodeLine     == <<"##", "code:", "x">>
StdoutLine   == <<"##", "stdout:", "s">>
JsonLine     == <<"##", "stdout-json:", "\"j\\n\"">>
JsonBadLine  == <<"##", "stdout-json:", "\"\\x\"">>
StatusLine   == <<"##", "status:", "2">>
StatusBad    == <<"##", "status:", "x">>
BugStdout    == <<"##", "BUG", "dash/v", "stdout:", "b">>
OkJson       == <<"##", "OK", "dash", "stdout-json:", "\"k\\n\"">>
BugJsonBad   == <<"##", "BUG", "dash", "stdout-json:", "\"\\x\"">>
BugStatus    == <<"##", "BUG", "dash", "status:", "3">>
OkStatus     == <<"##", "OK", "dash/v", "status:", "4">>
NIStatus     == <<"##", "N-I", "dash", "status:", "5">>
OtherStatus  == <<"##", "OK", "bash", "status:", "7">>
OtherBugStdout == <<"##", "BUG", "bash", "stdout:", "z">>

StructLines == {Header, Plain, StdoutOpen, EndMark, StatusLine, NIDashBare}

AllLines == StructLines \cup
    {OkDashOpen, NIDashOpen, OtherOpen, CodeLine, StdoutLine, JsonLine,
     JsonBadLine, StatusBad, BugStdout, OkJson, BugJsonBad, BugStatus,
     OkStatus, NIStatus, OtherStatus, OtherBugStdout}

SeqsUpTo(S, n) == UNION {[1..m -> S] : m \in 0..n}

\* every file over the structural lines
StructFiles == SeqsUpTo(StructLines, MaxLines)
\* a header followed by any lines
OneCaseFiles == {<<Header>> \o s : s \in SeqsUpTo(AllLines, MaxAnnot)}

-----------------------------------------------------------------------------
(* Matching a line: str.startswith and re.match, on the words of a line.   *)

Rest(l, n) == SubSeq(l, n, Len(l))

\* line.startswith("#### ")
IsHeader(l) == Len(l) >= 2 /\ l[1] = "####"
\* line.startswith("## ")
IsAnnot(l) == Len(l) >= 2 /\ l[1] = "##"
\* line.startswith("## STDOUT:")
IsStdoutOpen(l) == IsAnnot(l) /\ l[2] = "STDOUT:"
\* lines[i].startswith("## END")
IsEnd(l) == IsAnnot(l) /\ l[2] = "END"

\* BUG\S*
BugWords == {"BUG", "BUG-2"}
\* dash(/\w+)*
DashWords == {"dash", "dash/v"}
\* \d+
DigitWords == {"0", "2", "3", "4", "5", "7"}
StrToInt == [w \in DigitWords |->
    CASE w = "0" -> 0 [] w = "2" -> 2 [] w = "3" -> 3
      [] w = "4" -> 4 [] w = "5" -> 5 [] w = "7" -> 7]
\* "(.*)"
QuotedWords == {"\"j\\n\"", "\"k\\n\"", "\"\\x\""}
\* json.loads('"' + group + '"'): the decoded text, None when it raises
JsonLoads(w) ==
    CASE w = "\"j\\n\"" -> Some(<< <<"j">> >>)
      [] w = "\"k\\n\"" -> Some(<< <<"k">> >>)
      [] OTHER -> None

\* ^## (OK|BUG\S*|N-I)<space>
IsTagLine(l) == Len(l) >= 3 /\ l[1] = "##" /\ l[2] \in {"OK", "N-I"} \cup BugWords
\* ^## (OK|BUG) dash(/\w+)* STDOUT:
IsOkBugDashOpen(l) ==
    Len(l) >= 4 /\ l[1] = "##" /\ l[2] \in {"OK", "BUG"} /\ l[3] \in DashWords
               /\ l[4] = "STDOUT:"
\* ^## N-I dash(/\w+)* STDOUT:
IsNIDashOpen(l) ==
    Len(l) >= 4 /\ l[1] = "##" /\ l[2] = "N-I" /\ l[3] \in DashWords
               /\ l[4] = "STDOUT:"
\* ^## (OK|BUG\S*|N-I) \S+ STDOUT:  and not  ^## (OK|BUG|N-I) dash(/\w+)* STDOUT:
IsOtherOpen(l) ==
    /\ IsTagLine(l) /\ Len(l) >= 4 /\ l[4] = "STDOUT:"
    /\ ~(l[2] \in {"OK", "BUG", "N-I"} /\ l[3] \in DashWords)
\* ^## N-I dash(/\w+)*\b
IsNIDash(l) == Len(l) >= 3 /\ l[1] = "##" /\ l[2] = "N-I" /\ l[3] \in DashWords
\* ^## code: (.*)$
IsCode(l) == Len(l) >= 3 /\ l[1] = "##" /\ l[2] = "code:"
\* ^## stdout: (.*)$
IsStdout(l) == Len(l) >= 3 /\ l[1] = "##" /\ l[2] = "stdout:"
\* ^## stdout-json: "(.*)"$
IsStdoutJson(l) ==
    Len(l) = 3 /\ l[1] = "##" /\ l[2] = "stdout-json:" /\ l[3] \in QuotedWords
\* ^## status: (\d+)$
IsStatus(l) == Len(l) = 3 /\ l[1] = "##" /\ l[2] = "status:" /\ l[3] \in DigitWords
\* ^## BUG (bash|mksh|zsh|dash(/\w+)*)
IsBugShell(l) ==
    Len(l) >= 3 /\ l[1] = "##" /\ l[2] = "BUG"
               /\ l[3] \in {"bash", "mksh", "zsh"} \cup DashWords
\* ^## <tag> dash(/\w+)* stdout: (.*)$
IsDashStdout(l, tag) ==
    Len(l) >= 5 /\ l[1] = "##" /\ l[2] = tag /\ l[3] \in DashWords /\ l[4] = "stdout:"
\* ^## <tag> dash(/\w+)* stdout-json: "(.*)"$
IsDashStdoutJson(l, tag) ==
    Len(l) = 5 /\ l[1] = "##" /\ l[2] = tag /\ l[3] \in DashWords
               /\ l[4] = "stdout-json:" /\ l[5] \in QuotedWords
\* ^## <tag> dash(/\w+)* status: (\d+)$
IsDashStatus(l, tag) ==
    Len(l) = 5 /\ l[1] = "##" /\ l[2] = tag /\ l[3] \in DashWords
               /\ l[4] = "status:" /\ l[5] \in DigitWords
\* ^## OK dash(/\w+)* stdout
IsOkDashStdoutPrefix(l) ==
    Len(l) >= 4 /\ l[1] = "##" /\ l[2] = "OK" /\ l[3] \in DashWords
               /\ l[4] \in {"stdout:", "stdout-json:"}

\* the four tests that open a block capture, in the order of the code
BlockKind(l) ==
    IF IsStdoutOpen(l) THEN "STDOUT"
    ELSE IF IsOkBugDashOpen(l) THEN "OKBUG"
    ELSE IF IsNIDashOpen(l) THEN "NI"
    ELSE IF IsOtherOpen(l) THEN "OTHER"
    ELSE "none"

-----------------------------------------------------------------------------
(* parse_spec_file: the inline annotations.  c is the record of the locals  *)
(* code, expect_stdout, expect_stdout_json, expect_status and n_i_dash.     *)

\* a variant that assigns the outcome of the match, so that a line that is
\* no N-I dash line clears the flag
OnNIDashAssigns(l, c) == [c EXCEPT !.n_i_dash = IsNIDash(l)]

OnNIDash(l, c) ==
    IF IsNIDash(l) THEN [c EXCEPT !.n_i_dash = TRUE] ELSE c

OnCode(l, c) ==
    IF IsCode(l) THEN [c EXCEPT !.code = <<Rest(l, 3)>>] ELSE c

\* a variant of stdout: that overwrites a value already set
OnStdoutLastWins(l, c) ==
    IF IsStdout(l)
    THEN [c EXCEPT !.expect_stdout = Some(<<Rest(l, 3)>>)]
    ELSE c

OnStdout(l, c) ==
    IF IsStdout(l) /\ c.expect_stdout = None
    THEN [c EXCEPT !.expect_stdout = Some(<<Rest(l, 3)>>)]
    ELSE c

\* a variant that takes the empty text when the decoding fails
OnStdoutJsonEmptyOnError(l, c) ==
    IF IsStdoutJson(l) /\ c.expect_stdout = None
    THEN [c EXCEPT !.expect_stdout_json =
              IF JsonLoads(l[3]) # None THEN JsonLoads(l[3]) ELSE Some(<<>>)]
    ELSE c

OnStdoutJson(l, c) ==
    IF IsStdoutJson(l) /\ c.expect_stdout = None /\ JsonLoads(l[3]) # None
    THEN [c EXCEPT !.expect_stdout_json = JsonLoads(l[3])]
    ELSE c

\* a variant of status: that keeps a status already set
OnStatusFirstWins(l, c) ==
    IF IsStatus(l) /\ c.expect_status = 0
    THEN [c EXCEPT !.expect_status = StrToInt[l[3]]]
    ELSE c

OnStatus(l, c) ==
    IF IsStatus(l) THEN [c EXCEPT !.expect_status = StrToInt[l[3]]] ELSE c

\* one tag's inline stdout: and stdout-json: forms
OnDashStdout(l, c, tag) ==
    LET c1 == IF IsDashStdout(l, tag)
              THEN [c EXCEPT !.expect_stdout = Some(<<Rest(l, 5)>>)]
              ELSE c
    IN  IF IsDashStdoutJson(l, tag) /\ JsonLoads(l[5]) # None
        THEN [c1 EXCEPT !.expect_stdout_json = JsonLoads(l[5]),
                        !.expect_stdout = None]
        ELSE c1

OnDashStatus(l, c, tag) ==
    IF IsDashStatus(l, tag)
    THEN [c EXCEPT !.expect_status = StrToInt[l[5]]]
    ELSE c

\* a variant that takes the stdout: of a BUG line of any shell
OnBugAnyShell(l, c) ==
    IF IsBugShell(l) /\ Len(l) >= 5 /\ l[4] = "stdout:"
    THEN [c EXCEPT !.expect_stdout = Some(<<Rest(l, 5)>>)]
    ELSE IF IsBugShell(l)
    THEN OnDashStatus(l, OnDashStdout(l, c, "BUG"), "BUG")
    ELSE c

OnBug(l, c) ==
    IF IsBugShell(l)
    THEN OnDashStatus(l, OnDashStdout(l, c, "BUG"), "BUG")
    ELSE c

OnOkStdout(l, c) ==
    IF IsOkDashStdoutPrefix(l) THEN OnDashStdout(l, c, "OK") ELSE c

OnOkStatus(l, c) == OnDashStatus(l, c, "OK")

OnNIStatus(l, c) ==
    IF IsDashStatus(l, "N-I") THEN [c EXCEPT !.n_i_dash = TRUE] ELSE c

\* the body of the annotation loop for a line that opens no block
Inline(l, c) ==
    OnNIStatus(l, OnOkStatus(l, OnOkStdout(l, OnBug(l, OnStatus(l,
        OnStdoutJson(l, OnStdout(l, OnCode(l, OnNIDash(l, c)))))))))

\* real_code_lines: code_lines up to its first "## " line
RealCodeLines(cl) ==
    LET stops == {j \in 1..Len(cl) : IsAnnot(cl[j])}
        first == IF stops = {} THEN Len(cl) + 1
                 ELSE CHOOSE j \in stops : \A h \in stops : j <= h
    IN  SubSeq(cl, 1, first - 1)

\* the condition of the four block-capture loops
Capturing(ls, n) == n <= Len(ls) /\ ~IsEnd(ls[n]) /\ ~IsTagLine(ls[n])

\* expect_stdout of the appended case
FinalStdout(es, ej) == IF ej # None /\ es = None THEN ej ELSE es

-----------------------------------------------------------------------------
(* parse_spec_file: one action per iteration of each of its loops.         *)

Locals == [code |-> code, expect_stdout |-> expect_stdout,
           expect_stdout_json |-> expect_stdout_json,
           expect_status |-> expect_status, n_i_dash |-> n_i_dash]

\* outer loop, a header: name and code_lines start, the body loop is next
StartCase ==
    /\ pc = "outer" /\ i <= Len(lines) /\ IsHeader(lines[i])
    /\ name' = Rest(lines[i], 2)
    /\ code_lines' = <<>>
    /\ i' = i + 1
    /\ pc' = "body"
    /\ UNCHANGED <<lines, code, expect_stdout, expect_stdout_json,
                   expect_status, n_i_dash, stdout_lines, blk, cases>>
    /\ UNCHANGED mainVars

\* outer loop, any other line
SkipLine ==
    /\ pc = "outer" /\ i <= Len(lines) /\ ~IsHeader(lines[i])
    /\ i' = i + 1
    /\ UNCHANGED <<lines, pc, cases>>
    /\ UNCHANGED caseVars
    /\ UNCHANGED mainVars

\* the condition of the body loop
InBody(ls, n) == n <= Len(ls) /\ ~IsAnnot(ls[n])

\* the condition of the annotation loop, and its break at a header
InAnnotations(ls, n) == n <= Len(ls) /\ ~IsHeader(ls[n])

\* body loop: a line that does not start with "## " joins code_lines
BodyLine ==
    /\ pc = "body" /\ InBody(lines, i)
    /\ code_lines' = Append(code_lines, lines[i])
    /\ i' = i + 1
    /\ UNCHANGED <<lines, pc, name, code, expect_stdout, expect_stdout_json,
                   expect_status, n_i_dash, stdout_lines, blk, cases>>
    /\ UNCHANGED mainVars

\* the body loop ends: the locals of the case take their defaults
BodyEnd ==
    /\ pc = "body" /\ ~InBody(lines, i)
    /\ code' = RealCodeLines(code_lines)
    /\ expect_stdout' = None
    /\ expect_stdout_json' = None
    /\ expect_status' = 0
    /\ n_i_dash' = FALSE
    /\ pc' = "annot"
    /\ UNCHANGED <<lines, i, name, code_lines, stdout_lines, blk, cases>>
    /\ UNCHANGED mainVars

\* annotation loop: a line that opens a block starts its capture loop
OpenBlock ==
    /\ pc = "annot" /\ InAnnotations(lines, i)
    /\ BlockKind(lines[i]) # "none"
    /\ blk' = BlockKind(lines[i])
    /\ stdout_lines' = IF BlockKind(lines[i]) \in {"STDOUT", "OKBUG"}
                       THEN <<>> ELSE stdout_lines
    /\ i' = i + 1
    /\ pc' = "capture"
    /\ UNCHANGED <<lines, name, code_lines, code, expect_stdout,
                   expect_stdout_json, expect_status, n_i_dash, cases>>
    /\ UNCHANGED mainVars

\* a capture loop: the line is kept (STDOUT, OK/BUG dash) or dropped
CaptureLine ==
    /\ pc = "capture" /\ Capturing(lines, i)
    /\ stdout_lines' = IF blk \in {"STDOUT", "OKBUG"}
                       THEN Append(stdout_lines, lines[i]) ELSE stdout_lines
    /\ i' = i + 1
    /\ UNCHANGED <<lines, pc, name, code_lines, code, expect_stdout,
                   expect_stdout_json, expect_status, n_i_dash, blk, cases>>
    /\ UNCHANGED mainVars

\* a variant in which an OK/BUG dash block keeps a value already set
StdoutAfterBlockFirstWins(kind, es, sl) ==
    IF kind = "STDOUT" \/ (kind = "OKBUG" /\ es = None) THEN Some(sl) ELSE es

\* expect_stdout after a capture loop of the given kind
StdoutAfterBlock(kind, es, sl) ==
    IF kind \in {"STDOUT", "OKBUG"} THEN Some(sl) ELSE es

\* a variant that steps over whatever line stopped the capture
AfterBlockAlwaysSkips(ls, n) == n + 1

\* i after a capture loop: a "## END" is consumed, any other stop is not
AfterBlock(ls, n) == IF n <= Len(ls) /\ IsEnd(ls[n]) THEN n + 1 ELSE n

\* a capture loop ends: the block takes effect, a "## END" is consumed
CaptureEnd ==
    /\ pc = "capture" /\ ~Capturing(lines, i)
    /\ expect_stdout' = StdoutAfterBlock(blk, expect_stdout, stdout_lines)
    /\ n_i_dash' = IF blk = "NI" THEN TRUE ELSE n_i_dash
    /\ i' = AfterBlock(lines, i)
    /\ pc' = "annot"
    /\ UNCHANGED <<lines, name, code_lines, code, expect_stdout_json,
                   expect_status, stdout_lines, blk, cases>>
    /\ UNCHANGED mainVars

\* annotation loop: any other line is an inline annotation, or ignored
InlineLine ==
    /\ pc = "annot" /\ InAnnotations(lines, i)
    /\ BlockKind(lines[i]) = "none"
    /\ LET c == Inline(lines[i], Locals)
       IN  /\ code' = c.code
           /\ expect_stdout' = c.expect_stdout
           /\ expect_stdout_json' = c.expect_stdout_json
           /\ expect_status' = c.expect_status
           /\ n_i_dash' = c.n_i_dash
    /\ i' = i + 1
    /\ UNCHANGED <<lines, pc, name, code_lines, stdout_lines, blk, cases>>
    /\ UNCHANGED mainVars

\* the dictionary appended to cases
CaseRecord ==
    [name |-> name, code |-> code,
     expect_stdout |-> FinalStdout(expect_stdout, expect_stdout_json),
     expect_status |-> expect_status, n_i_dash |-> n_i_dash]

\* the annotation loop ends at a header or at the end: the case is appended
AppendCase ==
    /\ pc = "annot" /\ ~InAnnotations(lines, i)
    /\ expect_stdout' = FinalStdout(expect_stdout, expect_stdout_json)
    /\ cases' = Append(cases, CaseRecord)
    /\ pc' = "outer"
    /\ UNCHANGED <<lines, i, name, code_lines, code, expect_stdout_json,
                   expect_status, n_i_dash, stdout_lines, blk>>
    /\ UNCHANGED mainVars

\* the outer loop ends: parse_spec_file returns cases
ParseReturn ==
    /\ pc = "outer" /\ i > Len(lines)
    /\ pc' = "parsed"
    /\ UNCHANGED <<lines, i, cases>>
    /\ UNCHANGED caseVars
    /\ UNCHANGED mainVars

ParseNext ==
    \/ StartCase \/ SkipLine \/ BodyLine \/ BodyEnd \/ OpenBlock
    \/ CaptureLine \/ CaptureEnd \/ InlineLine \/ AppendCase \/ ParseReturn

\* parse_spec_file as a function of the text: the loops above, run from the
\* state st to the return.  body_ends and cap_stops collect the lines at
\* which the body loop ended and at which a capture loop stopped
RECURSIVE ParseFrom(_, _)
ParseFrom(ls, st) ==
    IF st.pc = "outer" THEN
        IF st.i > Len(ls) THEN st
        ELSE IF IsHeader(ls[st.i])
        THEN ParseFrom(ls, [st EXCEPT !.pc = "body",
                                      !.name = Rest(ls[st.i], 2),
                                      !.code_lines = <<>>,
                                      !.i = @ + 1])
        ELSE ParseFrom(ls, [st EXCEPT !.i = @ + 1])
    ELSE IF st.pc = "body" THEN
        IF InBody(ls, st.i)
        THEN ParseFrom(ls, [st EXCEPT !.code_lines = Append(@, ls[st.i]),
                                      !.i = @ + 1])
        ELSE ParseFrom(ls, [st EXCEPT
                 !.pc = "annot",
                 !.c = [code |-> RealCodeLines(st.code_lines),
                        expect_stdout |-> None, expect_stdout_json |-> None,
                        expect_status |-> 0, n_i_dash |-> FALSE],
                 !.body_ends = @ \cup {st.i}])
    ELSE IF st.pc = "annot" THEN
        IF ~InAnnotations(ls, st.i)
        THEN ParseFrom(ls, [st EXCEPT
                 !.pc = "outer",
                 !.cases = Append(@,
                     [name |-> st.name, code |-> st.c.code,
                      expect_stdout |-> FinalStdout(st.c.expect_stdout,
                                                    st.c.expect_stdout_json),
                      expect_status |-> st.c.expect_status,
                      n_i_dash |-> st.c.n_i_dash])])
        ELSE IF BlockKind(ls[st.i]) # "none"
        THEN ParseFrom(ls, [st EXCEPT
                 !.pc = "capture",
                 !.blk = BlockKind(ls[st.i]),
                 !.stdout_lines = IF BlockKind(ls[st.i]) \in {"STDOUT", "OKBUG"}
                                  THEN <<>> ELSE @,
                 !.i = @ + 1])
        ELSE ParseFrom(ls, [st EXCEPT !.c = Inline(ls[st.i], @), !.i = @ + 1])
    ELSE
        IF Capturing(ls, st.i)
        THEN ParseFrom(ls, [st EXCEPT
                 !.stdout_lines = IF st.blk \in {"STDOUT", "OKBUG"}
                                  THEN Append(@, ls[st.i]) ELSE @,
                 !.i = @ + 1])
        ELSE ParseFrom(ls, [st EXCEPT
                 !.pc = "annot",
                 !.c = [@ EXCEPT
                          !.expect_stdout =
                              StdoutAfterBlock(st.blk, @, st.stdout_lines),
                          !.n_i_dash = IF st.blk = "NI" THEN TRUE ELSE @],
                 !.i = AfterBlock(ls, st.i),
                 !.cap_stops = @ \cup {st.i}])

\* parse_spec_file on the text ls
ParseFile(ls) ==
    ParseFrom(ls, [pc |-> "outer", i |-> 1, cases |-> <<>>, name |-> <<>>,
                   code_lines |-> <<>>,
                   c |-> [code |-> <<>>, expect_stdout |-> None,
                          expect_stdout_json |-> None, expect_status |-> 0,
                          n_i_dash |-> FALSE],
                   stdout_lines |-> <<>>, blk |-> "none",
                   body_ends |-> {}, cap_stops |-> {}])

\* the state when parse_spec_file has read the file
ParseStart ==
    /\ pc = "outer" /\ i = 1 /\ cases = <<>>
    /\ name = <<>> /\ code_lines = <<>> /\ code = <<>>
    /\ expect_stdout = None /\ expect_stdout_json = None
    /\ expect_status = 0 /\ n_i_dash = FALSE
    /\ stdout_lines = <<>> /\ blk = "none"

MainIdle ==
    /\ argv_file = TRUE /\ only_failures = FALSE /\ k = 1
    /\ passed = 0 /\ failed = 0 /\ ni = 0 /\ errors = 0 /\ timeouts = 0
    /\ failures = <<>> /\ out = <<>> /\ ret = None /\ exit_status = None
    /\ tmpfile = FALSE /\ children = <<>> /\ results = <<>>

\* parse_spec_file alone, on every file of the two families
InitParse ==
    /\ lines \in StructFiles \cup OneCaseFiles
    /\ ParseStart
    /\ MainIdle

SpecParse == InitParse /\ [][ParseNext]_vars

-----------------------------------------------------------------------------
(* run_case.  What the child process does is not the program's choice: it   *)
(* runs past the timeout, cannot be started, or prints a text and exits.    *)

ChildStdouts == {<<>>, <<Plain>>}
ChildStatuses == {0, 2}
Children ==
    {[kind |-> "timeout", stdout |-> <<>>, status |-> 0],
     [kind |-> "error", stdout |-> <<>>, status |-> 0]}
    \cup {[kind |-> "exit", stdout |-> o, status |-> st] :
             o \in ChildStdouts, st \in ChildStatuses}

\* a diagnostic: a fixed text, or the mismatches as (expected, got)
Msg(text, so, st) == [text |-> text, stdout |-> so, status |-> st]

\* a variant that compares stdout also when expect_stdout is None
StdoutErrorAlways(case, child) ==
    LET want == IF case.expect_stdout = None THEN <<>> ELSE case.expect_stdout[1]
    IN  IF child.stdout # want THEN Some(<<want, child.stdout>>) ELSE None

\* the errors list of run_case
StdoutError(case, child) ==
    IF case.expect_stdout # None /\ child.stdout # case.expect_stdout[1]
    THEN Some(<<case.expect_stdout[1], child.stdout>>)
    ELSE None

StatusError(case, child) ==
    IF child.status # case.expect_status
    THEN Some(<<case.expect_status, child.status>>)
    ELSE None

\* the pair run_case returns for a case and what its child does
RunCase(case, child) ==
    IF child.kind = "timeout"
    THEN [result |-> "TIMEOUT", msg |-> Msg("timed out", None, None)]
    ELSE IF child.kind = "error"
    THEN [result |-> "ERROR", msg |-> Msg("str(e)", None, None)]
    ELSE IF case.n_i_dash
    THEN [result |-> "N-I", msg |-> Msg("not implemented in dash", None, None)]
    ELSE IF StdoutError(case, child) # None \/ StatusError(case, child) # None
    THEN [result |-> "FAIL",
          msg |-> Msg("", StdoutError(case, child), StatusError(case, child))]
    ELSE [result |-> "PASS", msg |-> Msg("", None, None)]

-----------------------------------------------------------------------------
(* main                                                                    *)

\* len(sys.argv) < 2: the usage line and sys.exit(1)
Usage ==
    /\ pc = "main" /\ ~argv_file
    /\ out' = Append(out, [kind |-> "usage"])
    /\ exit_status' = Some(1)
    /\ pc' = "exited"
    /\ UNCHANGED <<lines, i, cases>>
    /\ UNCHANGED caseVars
    /\ UNCHANGED <<argv_file, only_failures, k, passed, failed, ni, errors,
                   timeouts, failures, ret, tmpfile, children, results>>

\* main calls parse_spec_file
CallParse ==
    /\ pc = "main" /\ argv_file
    /\ pc' = "outer"
    /\ i' = 1
    /\ cases' = <<>>
    /\ UNCHANGED lines
    /\ UNCHANGED caseVars
    /\ UNCHANGED mainVars

\* the counters and the failures list start
StartLoop ==
    /\ pc = "parsed"
    /\ passed' = 0 /\ failed' = 0 /\ ni' = 0 /\ errors' = 0 /\ timeouts' = 0
    /\ failures' = <<>>
    /\ k' = 1
    /\ pc' = "loop"
    /\ UNCHANGED <<lines, i, cases>>
    /\ UNCHANGED caseVars
    /\ UNCHANGED <<argv_file, only_failures, out, ret, exit_status, tmpfile,
                   children, results>>

\* run_case writes the script of the case to a temporary file
WriteScript ==
    /\ pc = "loop" /\ k <= Len(cases)
    /\ tmpfile' = TRUE
    /\ pc' = "exec"
    /\ UNCHANGED <<lines, i, cases>>
    /\ UNCHANGED caseVars
    /\ UNCHANGED <<argv_file, only_failures, k, passed, failed, ni, errors,
                   timeouts, failures, out, ret, exit_status, children,
                   results>>

\* a variant that counts a TIMEOUT as an ERROR too
TallyTimeoutAsError(result, n, which) ==
    IF result = which \/ (result = "TIMEOUT" /\ which = "ERROR") THEN n + 1 ELSE n

\* the counters after one result
Tally(result, n, which) == IF result = which THEN n + 1 ELSE n

\* the else branch of main's tally: any result but the four named
IsFailed(result) == result \notin {"PASS", "N-I", "TIMEOUT", "ERROR"}

\* failures after one result
FailuresAfter(fs, case, r) ==
    IF r.result \in {"PASS", "N-I"} THEN fs
    ELSE Append(fs, [name |-> case.name, msg |-> r.msg])

\* a variant that removes the file only after the child has exited
AfterFinallyOnExit(child) == child.kind # "exit"

\* whether the temporary file exists once the finally clause has run
AfterFinally(child) == FALSE

\* a variant whose loop ends at the first ERROR or TIMEOUT
NextCaseStopsAtError(kk, r) ==
    IF r.result \in {"ERROR", "TIMEOUT"} THEN Len(cases) + 1 ELSE kk + 1

\* the for loop of main goes to the next case whatever the result
NextCase(kk, r) == kk + 1

\* run_case runs the child, removes the file and returns; main tallies
ExecCase ==
    /\ pc = "exec"
    /\ \E child \in Children :
         LET r == RunCase(cases[k], child)
         IN  /\ children' = Append(children, child)
             /\ results' = Append(results, r)
             /\ passed' = Tally(r.result, passed, "PASS")
             /\ ni' = Tally(r.result, ni, "N-I")
             /\ timeouts' = Tally(r.result, timeouts, "TIMEOUT")
             /\ errors' = Tally(r.result, errors, "ERROR")
             /\ failed' = IF IsFailed(r.result) THEN failed + 1 ELSE failed
             /\ failures' = FailuresAfter(failures, cases[k], r)
             /\ tmpfile' = AfterFinally(child)
             /\ k' = NextCase(k, r)
    /\ pc' = "loop"
    /\ UNCHANGED <<lines, i, cases>>
    /\ UNCHANGED caseVars
    /\ UNCHANGED <<argv_file, only_failures, out, ret, exit_status>>

\* the summary line
SummaryLine ==
    [kind |-> "summary", passed |-> passed,
     total |-> passed + failed + ni + errors + timeouts,
     failed |-> failed, ni |-> ni, errors |-> errors, timeouts |-> timeouts]

PrintSummary ==
    /\ pc = "loop" /\ k > Len(cases)
    /\ out' = Append(out, SummaryLine)
    /\ pc' = "details"
    /\ UNCHANGED <<lines, i, cases>>
    /\ UNCHANGED caseVars
    /\ UNCHANGED <<argv_file, only_failures, k, passed, failed, ni, errors,
                   timeouts, failures, ret, exit_status, tmpfile, children,
                   results>>

\* the "  FAIL: <name>: <msg>" lines of a failures list
DetailLines(fs) ==
    [n \in 1..Len(fs) |-> [kind |-> "detail", name |-> fs[n].name,
                           msg |-> fs[n].msg]]

\* a variant whose second loop runs whatever the flag is
PrintedDetailsTwice(fs, only) ==
    (IF fs # <<>> /\ ~only THEN DetailLines(fs) ELSE <<>>) \o DetailLines(fs)

\* what the two loops over failures print
PrintedDetails(fs, only) ==
    (IF fs # <<>> /\ ~only THEN DetailLines(fs) ELSE <<>>)
    \o (IF only THEN DetailLines(fs) ELSE <<>>)

\* the value main returns
ReturnValue(f, e, t) == IF f = 0 /\ e = 0 /\ t = 0 THEN 0 ELSE 1

PrintDetails ==
    /\ pc = "details"
    /\ out' = out \o PrintedDetails(failures, only_failures)
    /\ ret' = Some(ReturnValue(failed, errors, timeouts))
    /\ pc' = "returned"
    /\ UNCHANGED <<lines, i, cases>>
    /\ UNCHANGED caseVars
    /\ UNCHANGED <<argv_file, only_failures, k, passed, failed, ni, errors,
                   timeouts, failures, exit_status, tmpfile, children,
                   results>>

\* the status the interpreter exits with after the statement  main()
ExitStatus(r) == 0

\* the module ends after  main()
Exit ==
    /\ pc = "returned"
    /\ exit_status' = Some(ExitStatus(ret[1]))
    /\ pc' = "exited"
    /\ UNCHANGED <<lines, i, cases>>
    /\ UNCHANGED caseVars
    /\ UNCHANGED <<argv_file, only_failures, k, passed, failed, ni, errors,
                   timeouts, failures, out, ret, tmpfile, children, results>>

MainNext ==
    \/ Usage \/ CallParse \/ StartLoop \/ WriteScript \/ ExecCase
    \/ PrintSummary \/ PrintDetails \/ Exit

Next == ParseNext \/ MainNext

\* the program started on a spec file over the structural lines, or with
\* no argument
Init ==
    /\ argv_file \in BOOLEAN
    /\ only_failures \in (IF argv_file THEN BOOLEAN ELSE {FALSE})
    /\ lines \in (IF argv_file THEN StructFiles ELSE {<<>>})
    /\ pc = "main" /\ i = 1 /\ cases = <<>>
    /\ name = <<>> /\ code_lines = <<>> /\ code = <<>>
    /\ expect_stdout = None /\ expect_stdout_json = None
    /\ expect_status = 0 /\ n_i_dash = FALSE
    /\ stdout_lines = <<>> /\ blk = "none"
    /\ k = 1
    /\ passed = 0 /\ failed = 0 /\ ni = 0 /\ errors = 0 /\ timeouts = 0
    /\ failures = <<>> /\ out = <<>> /\ ret = None /\ exit_status = None
    /\ tmpfile = FALSE /\ children = <<>> /\ results = <<>>

Spec == Init /\ [][Next]_vars

-----------------------------------------------------------------------------
(* Properties of the whole program (specification Spec).                   *)

\* the lines of a file that begin with "#### "
HeaderLines(ls) == {j \in 1..Len(ls) : IsHeader(ls[j])}

\* parse_spec_file has returned
Parsed == pc \in {"parsed", "loop", "exec", "details", "returned", "exited"}

\* C1: the number of cases parse_spec_file returns, and the total of the
\* summary line, is the number of lines of the file that begin with "#### "
C1_CasesAreHeaders ==
    /\ (Parsed /\ argv_file) => Len(cases) = Cardinality(HeaderLines(lines))
    /\ \A n \in 1..Len(out) :
         out[n].kind = "summary" => out[n].total = Cardinality(HeaderLines(lines))

\* C2: run on a spec file, the process exits with status 0 exactly when
\* every case is PASS or N-I
C2_ExitStatusTellsFailure ==
    (pc = "exited" /\ argv_file) =>
        ((exit_status = Some(0)) <=>
            \A n \in 1..Len(results) : results[n].result \in {"PASS", "N-I"})

\* C3: run_case returns N-I for every case whose n_i_dash is true
C3_NotImplementedIsNI ==
    \A n \in 1..Len(results) :
        cases[n].n_i_dash => results[n].result = "N-I"

\* the child of run n printed what the case expects, or nothing is expected
StdoutMatches(n) ==
    \/ cases[n].expect_stdout = None
    \/ children[n].stdout = cases[n].expect_stdout[1]

StatusMatches(n) == children[n].status = cases[n].expect_status

\* C7: for a case that is not not-implemented and whose child ran to its
\* end, the result is PASS exactly when stdout (if expected) and the status
\* match, FAIL otherwise, and the diagnostic has a stdout part exactly when
\* stdout mismatched and a status part exactly when the status mismatched
C7_PassIffBothMatch ==
    \A n \in 1..Len(results) :
        (~cases[n].n_i_dash /\ children[n].kind = "exit") =>
            /\ results[n].result = "PASS" <=> (StdoutMatches(n) /\ StatusMatches(n))
            /\ results[n].result \in {"PASS", "FAIL"}
            /\ results[n].msg.stdout # None <=> ~StdoutMatches(n)
            /\ results[n].msg.status # None <=> ~StatusMatches(n)

\* a case with an expected stdout failed on stdout alone, another passed
\* with nothing expected
C7_Witness ==
    /\ \E n \in 1..Len(results) :
         /\ ~cases[n].n_i_dash /\ cases[n].expect_stdout # None
         /\ results[n].result = "FAIL"
         /\ results[n].msg.stdout # None /\ results[n].msg.status = None
    /\ \E n \in 1..Len(results) :
         /\ ~cases[n].n_i_dash /\ cases[n].expect_stdout = None
         /\ children[n].stdout # <<>>
         /\ results[n].result = "PASS"

\* the detail lines of the first n results, in case order
RECURSIVE DetailsOf(_)
DetailsOf(n) ==
    IF n = 0 THEN <<>>
    ELSE IF results[n].result \in {"FAIL", "ERROR", "TIMEOUT"}
         THEN Append(DetailsOf(n - 1),
                     [kind |-> "detail", name |-> cases[n].name,
                      msg |-> results[n].msg])
         ELSE DetailsOf(n - 1)

\* C10: when main has printed, its output is the summary line, once,
\* followed by one detail line for each FAIL, ERROR or TIMEOUT case in case
\* order and none for PASS or N-I, with and without --only-failures
C10_SummaryAndDetailsOnce ==
    (pc \in {"returned", "exited"} /\ argv_file) =>
        /\ Len(results) = Len(cases)
        /\ out = <<SummaryLine>> \o DetailsOf(Len(results))

\* two cases, the first not failing, the second failing, without the flag
C10_Witness ==
    /\ pc = "exited" /\ ~only_failures /\ Len(results) = 2
    /\ results[1].result = "N-I"
    /\ results[2].result = "TIMEOUT"
    /\ Len(out) = 2

-----------------------------------------------------------------------------
(* Properties of parse_spec_file (specification SpecParse).                *)

\* the annotation loop is at a line that opens no block
AtInline == pc = "annot" /\ InAnnotations(lines, i) /\ BlockKind(lines[i]) = "none"

\* the inline OK/BUG dash stdout: and stdout-json: forms
IsOverrideStdout(l) ==
    \/ IsDashStdout(l, "OK") \/ IsDashStdout(l, "BUG")
    \/ IsDashStdoutJson(l, "OK") \/ IsDashStdoutJson(l, "BUG")

\* the step about to be taken applies an OK/BUG dash stdout annotation
AtOverride ==
    \/ pc = "capture" /\ blk = "OKBUG"
    \/ AtInline /\ IsOverrideStdout(lines[i])

\* C4: within a case, once expect_stdout is set, only an OK/BUG dash stdout
\* annotation changes it
C4_FirstWins ==
    [][(pc \in {"annot", "capture"} /\ expect_stdout # None /\ ~AtOverride)
         => expect_stdout' = expect_stdout]_vars

\* the first line after the block opened at line q that is "## END" or an
\* OK/BUG/N-I line, Len + 1 when there is none
BlockStop(ls, q) ==
    LET stops == {t \in (q + 1)..Len(ls) : IsEnd(ls[t]) \/ IsTagLine(ls[t])}
    IN  IF stops = {} THEN Len(ls) + 1
        ELSE CHOOSE t \in stops : \A u \in stops : t <= u

\* the lines of the block opened at line q
BlockBody(ls, q) == SubSeq(ls, q + 1, BlockStop(ls, q) - 1)

\* the opener of the OK/BUG dash block being captured
OkBugOpener ==
    CHOOSE q \in 1..(i - 1) :
        /\ IsOkBugDashOpen(lines[q])
        /\ \A u \in (q + 1)..(i - 1) : ~IsOkBugDashOpen(lines[u])

\* a line that can set or clear expect_stdout when the annotation loop
\* reaches it
AffectsStdout(l) ==
    \/ IsStdoutOpen(l) \/ IsOkBugDashOpen(l)
    \/ IsStdout(l) \/ IsStdoutJson(l) \/ IsOverrideStdout(l)

\* the file has one header, its first line
OneHeader(ls) == Len(ls) >= 1 /\ HeaderLines(ls) = {1}

\* every step that applies an OK/BUG dash stdout annotation makes its
\* content the expected stdout
C5_Step ==
    /\ (pc = "capture" /\ blk = "OKBUG" /\ ~Capturing(lines, i))
         => expect_stdout' = Some(BlockBody(lines, OkBugOpener))
    /\ (AtInline /\ (IsDashStdout(lines[i], "OK") \/ IsDashStdout(lines[i], "BUG")))
         => FinalStdout(expect_stdout', expect_stdout_json')
              = Some(<<Rest(lines[i], 5)>>)
    /\ (AtInline /\ (IsDashStdoutJson(lines[i], "OK")
                       \/ IsDashStdoutJson(lines[i], "BUG"))
                 /\ JsonLoads(lines[i][5]) # None)
         => FinalStdout(expect_stdout', expect_stdout_json')
              = JsonLoads(lines[i][5])

\* a case whose last stdout annotation is an OK/BUG dash STDOUT block ends
\* with the content of that block
C5_Final ==
    pc = "parsed" =>
        \A q \in 2..Len(lines) :
            (/\ OneHeader(lines)
             /\ IsOkBugDashOpen(lines[q])
             /\ \A j \in BlockStop(lines, q)..Len(lines) : ~AffectsStdout(lines[j]))
            => /\ Len(cases) = 1
               /\ cases[1].expect_stdout = Some(BlockBody(lines, q))

\* C5: an OK/BUG dash stdout annotation (block, stdout:, decoded
\* stdout-json:) makes its content the expected stdout whatever was set
\* before; a generic STDOUT block followed by an OK/BUG dash STDOUT block
\* ends with the dash content
C5_OverrideWins == [][C5_Step]_vars /\ []C5_Final

\* a generic block with a line, then an OK dash block with none
C5_Witness ==
    /\ pc = "parsed"
    /\ lines = <<Header, StdoutOpen, Plain, OkDashOpen>>
    /\ cases[1].expect_stdout = Some(<<>>)

\* the three status annotations that set expect_status, and their integer
IsStatusSetter(l) == IsStatus(l) \/ IsDashStatus(l, "OK") \/ IsDashStatus(l, "BUG")
StatusOf(l) == StrToInt[l[Len(l)]]

\* a header followed by annotation lines only
OneCaseAnnotations(ls) ==
    Len(ls) >= 1 /\ IsHeader(ls[1]) /\ \A j \in 2..Len(ls) : IsAnnot(ls[j])

\* the integer of the last of the given lines, 0 when there is none
LastStatus(ls, S) ==
    IF S = {} THEN 0
    ELSE StatusOf(ls[CHOOSE j \in S : \A h \in S : h <= j])

\* C6 as stated: the final expect_status is the integer of the last status
\* annotation among the annotation lines of the case
C6_LastStatusLine ==
    (pc = "parsed" /\ OneCaseAnnotations(lines)) =>
        cases[1].expect_status
            = LastStatus(lines, {j \in 2..Len(lines) : IsStatusSetter(lines[j])})

\* line j lies in the capture of a block whose opener the annotation loop
\* reached
RECURSIVE Captured(_, _)
Captured(ls, j) ==
    \E q \in 2..(j - 1) :
        /\ BlockKind(ls[q]) # "none"
        /\ j < BlockStop(ls, q)
        /\ ~Captured(ls, q)

\* C6: the final expect_status is the integer of the last status annotation
\* (status:, OK dash status:, BUG dash status:) that does not lie inside a
\* block capture, 0 when there is none; an N-I dash status: line sets
\* n_i_dash and is not among them
C6_LastStatusReached ==
    (pc = "parsed" /\ OneCaseAnnotations(lines)) =>
        /\ cases[1].expect_status
             = LastStatus(lines, {j \in 2..Len(lines) :
                                    IsStatusSetter(lines[j]) /\ ~Captured(lines, j)})
        /\ (\E j \in 2..Len(lines) : IsDashStatus(lines[j], "N-I"))
             => cases[1].n_i_dash

\* status:, then BUG dash status:, then N-I dash status:
C6_Witness ==
    /\ pc = "parsed"
    /\ lines = <<Header, StatusLine, BugStatus, NIStatus>>
    /\ cases[1].expect_status = 3
    /\ cases[1].n_i_dash

\* C8: a generic STDOUT block followed, after its end, by inline
\* annotations that are no OK/BUG dash stdout, one of them stdout:, leaves
\* the content of the block as the expected stdout
C8_BlockBeatsInline ==
    pc = "parsed" =>
        \A p \in 2..Len(lines) :
            (/\ OneHeader(lines)
             /\ \A j \in 2..(p - 1) : ~IsAnnot(lines[j])
             /\ IsStdoutOpen(lines[p])
             /\ \A j \in BlockStop(lines, p)..Len(lines) :
                    BlockKind(lines[j]) = "none" /\ ~IsOverrideStdout(lines[j])
             /\ \E j \in BlockStop(lines, p)..Len(lines) : IsStdout(lines[j]))
            => /\ Len(cases) = 1
               /\ cases[1].expect_stdout = Some(BlockBody(lines, p))

\* an empty STDOUT block, its end, then stdout: s
C8_Witness ==
    /\ pc = "parsed"
    /\ lines = <<Header, StdoutOpen, EndMark, StdoutLine>>
    /\ cases[1].expect_stdout = Some(<<>>)

\* the n-th header of the file, and the lines of its block
NthHeader(ls, n) ==
    CHOOSE h \in HeaderLines(ls) :
        Cardinality({g \in HeaderLines(ls) : g <= h}) = n
BlockOf(ls, h) ==
    {j \in (h + 1)..Len(ls) : \A g \in HeaderLines(ls) : ~(h < g /\ g <= j)}

\* C9: the case of a header whose block has no annotation line has
\* expect_stdout None and expect_status 0, and the case of a header whose
\* block has no status annotation has expect_status 0
C9_Defaults ==
    pc = "parsed" =>
        \A n \in 1..Len(cases) :
            LET block == BlockOf(lines, NthHeader(lines, n))
            IN  /\ (\A j \in block : ~IsAnnot(lines[j]))
                     => /\ cases[n].expect_stdout = None
                        /\ cases[n].expect_status = 0
                /\ (\A j \in block : ~IsStatusSetter(lines[j]))
                     => cases[n].expect_status = 0

-----------------------------------------------------------------------------
(* run_case and the loop of main                                           *)

\* C11: for a case whose n_i_dash is true no script file is written and no
\* child process is launched: the temporary file never exists while such a
\* case is the current one, and no child belongs to such a case
C11_NoRunForNI ==
    /\ tmpfile => ~cases[k].n_i_dash
    /\ \A n \in 1..Len(children) : ~cases[n].n_i_dash

\* C12: main runs every parsed case exactly once, one at a time and in
\* parse order: while the loop runs, the cases before the current one are
\* exactly those that have a result, the n-th result is the one of the n-th
\* case, and the temporary file of at most the current case exists; once
\* the loop is over every case has been run and tallied, whatever ERROR or
\* TIMEOUT results came before
C12_EveryCaseRunInOrder ==
    /\ pc \in {"loop", "exec"} =>
         /\ Len(results) = k - 1
         /\ k <= Len(cases) + 1
    /\ tmpfile => pc = "exec" /\ k <= Len(cases)
    /\ Len(children) = Len(results)
    /\ \A n \in 1..Len(results) : results[n] = RunCase(cases[n], children[n])
    /\ pc \in {"details", "returned", "exited"} =>
         /\ Len(results) = Len(cases)
         /\ passed + failed + ni + errors + timeouts = Len(cases)

\* a launch failure or a timeout of the first case, then a second case that
\* runs and passes
C12_Witness ==
    /\ pc = "details"
    /\ Len(cases) = 2
    /\ results[1].result \in {"ERROR", "TIMEOUT"}
    /\ results[2].result = "PASS"
    /\ passed = 1 /\ errors + timeouts = 1

-----------------------------------------------------------------------------
(* parse_spec_file: what a case is built from                              *)

\* C13: the code and the expected stdout of a case are built only from
\* lines after its own header and before the next header, so no case header
\* is among the lines of the code or of the expected stdout of a case
C13_NoHeaderInsideCase ==
    pc = "parsed" =>
        \A n \in 1..Len(cases) :
            /\ \A j \in 1..Len(cases[n].code) : ~IsHeader(cases[n].code[j])
            /\ cases[n].expect_stdout # None =>
                 \A j \in 1..Len(cases[n].expect_stdout[1]) :
                     ~IsHeader(cases[n].expect_stdout[1][j])

\* the lines of a one-case file that are a stdout: annotation, and those
\* that are a stdout-json: annotation whose text decodes
StdoutAt(ls) == {j \in 2..Len(ls) : IsStdout(ls[j])}
JsonAt(ls) == {j \in 2..Len(ls) : IsStdoutJson(ls[j]) /\ JsonLoads(ls[j][3]) # None}

\* one stdout: line, one decodable stdout-json: line, no block and no other
\* stdout annotation
OneStdoutOneJson(ls) ==
    /\ OneCaseAnnotations(ls)
    /\ Cardinality(StdoutAt(ls)) = 1 /\ Cardinality(JsonAt(ls)) = 1
    /\ \A j \in 2..Len(ls) :
         /\ BlockKind(ls[j]) = "none"
         /\ AffectsStdout(ls[j]) => j \in StdoutAt(ls) \cup JsonAt(ls)

\* C14: in a case with exactly one  ## stdout: X  and one decodable
\* ## stdout-json: "J"  and no other stdout annotation, the final expected
\* stdout is J when the stdout-json: line comes first and X plus a newline
\* when the stdout: line comes first
C14_JsonWinsIffFirst ==
    (pc = "parsed" /\ OneStdoutOneJson(lines)) =>
        LET x == CHOOSE j \in StdoutAt(lines) : TRUE
            y == CHOOSE j \in JsonAt(lines) : TRUE
        IN  cases[1].expect_stdout =
                IF y < x THEN JsonLoads(lines[y][3])
                ELSE Some(<<Rest(lines[x], 3)>>)

-----------------------------------------------------------------------------
(* run_case: the temporary file                                            *)

\* C15: the temporary script file exists exactly while run_case is between
\* writing it and returning: whenever run_case has returned, with whatever
\* result, the file is gone
C15_FileGoneAtReturn ==
    /\ pc = "exec" => tmpfile
    /\ pc # "exec" => ~tmpfile

\* run_case has returned TIMEOUT for one case and N-I or ERROR for another
C15_Witness ==
    /\ pc = "loop" /\ Len(results) = 2 /\ ~tmpfile
    /\ results[1].result = "TIMEOUT"
    /\ results[2].result \in {"N-I", "ERROR"}

-----------------------------------------------------------------------------
(* main: the counters                                                      *)

\* how many of the results so far are the given one
CountOf(tok) == Cardinality({n \in 1..Len(results) : results[n].result = tok})

Counted == passed + failed + ni + errors + timeouts

\* each counter is the number of results of its kind, their sum is the
\* number of cases processed, and failures has one entry for each FAIL,
\* ERROR and TIMEOUT
C16_Counts ==
    /\ passed = CountOf("PASS") /\ failed = CountOf("FAIL")
    /\ ni = CountOf("N-I") /\ errors = CountOf("ERROR")
    /\ timeouts = CountOf("TIMEOUT")
    /\ Counted = Len(results)
    /\ Len(failures) = failed + errors + timeouts

\* no counter decreases; the step that processes a case adds one to exactly
\* one counter, and a TIMEOUT adds it to timeouts and not to errors
C16_Step ==
    /\ passed' >= passed /\ failed' >= failed /\ ni' >= ni
    /\ errors' >= errors /\ timeouts' >= timeouts
    /\ pc = "exec" =>
         /\ Counted' = Counted + 1
         /\ results'[Len(results')].result = "TIMEOUT"
              => timeouts' = timeouts + 1 /\ errors' = errors

\* C16: every processed case adds one to exactly one of passed, failed, ni,
\* errors and timeouts; the counters never decrease, their sum is the number
\* of cases processed so far, len(failures) = failed + errors + timeouts,
\* and a TIMEOUT is counted in timeouts only
C16_TallyInvariant == [][C16_Step]_vars /\ []C16_Counts

\* two cases processed, a TIMEOUT and a FAIL
C16_Witness ==
    /\ pc = "loop" /\ Len(results) = 2
    /\ results[1].result = "TIMEOUT" /\ results[2].result = "FAIL"
    /\ timeouts = 1 /\ failed = 1 /\ errors = 0 /\ Len(failures) = 2

-----------------------------------------------------------------------------
(* parse_spec_file: annotations of other dialects                          *)

\* an inline OK/BUG/N-I stdout or status annotation of a dialect other than
\* dash
IsOtherInline(l) ==
    /\ IsTagLine(l) /\ Len(l) >= 4 /\ l[3] \notin DashWords
    /\ l[4] \in {"stdout:", "stdout-json:", "status:"}

\* line q opens a STDOUT block of a dialect other than dash whose capture
\* ends at a "## END"
IsClosedOther(ls, q) ==
    /\ IsOtherOpen(ls[q]) /\ ls[q][3] \notin DashWords
    /\ BlockStop(ls, q) <= Len(ls) /\ IsEnd(ls[BlockStop(ls, q)])

\* the lines of the other-dialect annotations: the inline ones, and the
\* closed blocks with their bodies and their "## END"
OtherLines(ls) ==
    {j \in 1..Len(ls) : IsOtherInline(ls[j])}
    \cup {j \in 1..Len(ls) :
            \E q \in 1..j : IsClosedOther(ls, q) /\ j <= BlockStop(ls, q)}

\* the text without the lines of S
Without(ls, S) ==
    LET keep == {j \in 1..Len(ls) : j \notin S}
        nth(m) == CHOOSE j \in keep : Cardinality({h \in keep : h <= j}) = m
    IN  [m \in 1..Cardinality(keep) |-> ls[nth(m)]]

\* the first line after j that is not in S, Len(ls) + 1 when there is none
NextKept(ls, S, j) ==
    LET later == {h \in (j + 1)..Len(ls) : h \notin S}
    IN  IF later = {} THEN Len(ls) + 1
        ELSE CHOOSE h \in later : \A g \in later : h <= g

\* taking the other-dialect annotations away moves no end of a script body
\* and no end of a block capture: where such an annotation is the line that
\* ends the body loop, the next line that stays is an annotation line or
\* the end of the file, and where it is the line that stops a capture, the
\* next line that stays stops the capture too
KeepsDelimiters(ls) ==
    LET p == ParseFile(ls)
        S == OtherLines(ls)
    IN  \A j \in S :
            LET nx == NextKept(ls, S, j)
            IN  /\ j \in p.body_ends => (nx > Len(ls) \/ IsAnnot(ls[nx]))
                /\ j \in p.cap_stops =>
                     (nx > Len(ls) \/ IsEnd(ls[nx]) \/ IsTagLine(ls[nx]))

C17_Step ==
    ((AtInline /\ IsOtherInline(lines[i])) \/ (pc = "capture" /\ blk = "OTHER"))
        => UNCHANGED <<code, expect_stdout, expect_status, n_i_dash>>

C17_Final ==
    (pc = "parsed" /\ KeepsDelimiters(lines)) =>
        cases = ParseFile(Without(lines, OtherLines(lines))).cases

-----------------------------------------------------------------------------
(* parse_spec_file: n_i_dash                                               *)

\* n_i_dash starts FALSE with the locals of a case; within the case it
\* never goes back to FALSE; a bare N-I dash marker, an N-I dash status:
\* line and the end of an N-I dash STDOUT block each make it TRUE; no step
\* of the capture of an N-I dash block changes expect_stdout
C18_Step ==
    /\ (pc = "body" /\ pc' = "annot") => ~n_i_dash'
    /\ (pc \in {"annot", "capture"} /\ n_i_dash) => n_i_dash'
    /\ (AtInline /\ IsNIDash(lines[i])) => n_i_dash'
    /\ (pc = "capture" /\ blk = "NI") =>
         /\ expect_stdout' = expect_stdout
         /\ pc' = "annot" => n_i_dash'

\* the case of a one-header file is not implemented exactly if one of its
\* lines is an N-I dash form, and has no expected stdout if no line but
\* those of N-I dash blocks could give it one
C18_Final ==
    (pc = "parsed" /\ OneHeader(lines)) =>
        /\ cases[1].n_i_dash <=> \E j \in 2..Len(lines) : IsNIDash(lines[j])
        /\ (\A j \in 2..Len(lines) : ~AffectsStdout(lines[j]))
             => cases[1].expect_stdout = None

\* C18: n_i_dash starts false for each case, each of the three N-I dash
\* forms (STDOUT block, status: line, bare marker) sets it to true, no
\* later annotation of the case resets it, and the body of an N-I dash
\* STDOUT block is never stored in expect_stdout
C18_NotImplementedMonotone == [][C18_Step]_vars /\ []C18_Final

\* an N-I dash STDOUT block with one body line and its end
C18_Witness ==
    /\ pc = "parsed"
    /\ lines = <<Header, NIDashOpen, Plain, EndMark>>
    /\ cases[1].n_i_dash
    /\ cases[1].expect_stdout = None

-----------------------------------------------------------------------------
(* parse_spec_file: lines that match no annotation form                    *)

\* an annotation line that matches one of the inline forms, with a text
\* that decodes where the form is a stdout-json:
IsRecognized(l) ==
    \/ IsNIDash(l) \/ IsCode(l) \/ IsStdout(l) \/ IsStatus(l)
    \/ (IsStdoutJson(l) /\ JsonLoads(l[3]) # None)
    \/ \E tag \in {"OK", "BUG"} :
          \/ IsDashStdout(l, tag) \/ IsDashStatus(l, tag)
          \/ (IsDashStdoutJson(l, tag) /\ JsonLoads(l[5]) # None)

\* an annotation line with an unknown keyword or a malformed value, or a
\* plain or dash stdout-json: whose text does not decode
IsAnomaly(l) == IsAnnot(l) /\ BlockKind(l) = "none" /\ ~IsRecognized(l)

\* the step of the annotation loop on such a line changes none of the
\* locals of the case and goes to the next line
C19_Step ==
    (AtInline /\ IsAnomaly(lines[i])) =>
        /\ UNCHANGED <<code, expect_stdout, expect_stdout_json,
                       expect_status, n_i_dash>>
        /\ i' = i + 1 /\ pc' = "annot"

\* a case whose annotation lines are all such lines is parsed, with the
\* defaults
C19_Final ==
    (/\ pc = "parsed" /\ OneCaseAnnotations(lines)
     /\ \A j \in 2..Len(lines) : IsAnomaly(lines[j])) =>
        cases = <<[name |-> Rest(lines[1], 2), code |-> <<>>,
                   expect_stdout |-> None, expect_status |-> 0,
                   n_i_dash |-> FALSE]>>

\* C19: an annotation line that matches no recognized form (unknown
\* keyword, status: with a non-digit value) or a plain or dash stdout-json:
\* whose decoding fails leaves code, expect_stdout, expect_status and
\* n_i_dash as they were, and parsing continues with the next line
C19_AnomaliesIgnored == [][C19_Step]_vars /\ []C19_Final

\* a status: with a non-digit value, then a plain and a dash stdout-json:
\* that do not decode
C19_Witness ==
    /\ pc = "parsed"
    /\ lines = <<Header, StatusBad, JsonBadLine, BugJsonBad>>
    /\ Len(cases) = 1
    /\ cases[1].expect_stdout = None /\ cases[1].expect_status = 0

-----------------------------------------------------------------------------
(* parse_spec_file: termination                                            *)

\* the loops from the innermost out: what is left to do at a position of
\* the parser with i unchanged
LoopRank ==
    CASE pc \in {"body", "capture"} -> 3
      [] pc = "annot" -> 2
      [] pc = "outer" -> 1
      [] OTHER -> 0

\* the lines still to read, then the loops still to leave
Measure == 4 * (Len(lines) + 1 - i) + LoopRank

\* every iteration moves i forward or leaves its loop, and the measure goes
\* down; a line at which the body loop or a capture loop stops without
\* taking it is a line of the annotation loop, which takes it
C20_Step ==
    /\ i' >= i /\ i' <= Len(lines) + 1
    /\ i' = i => pc' # pc
    /\ Measure' < Measure
    /\ (pc \in {"body", "capture"} /\ i' = i /\ i <= Len(lines))
         => pc' = "annot" /\ InAnnotations(lines, i)
    /\ (pc = "annot" /\ InAnnotations(lines, i)) => i' = i + 1

\* i stays within the lines or one past them, the measure is never
\* negative, and the parser can take a step until it has returned
C20_Bounded ==
    /\ i \in 1..(Len(lines) + 1)
    /\ Measure >= 0
    /\ pc # "parsed" => ENABLED ParseNext

\* C20: parse_spec_file terminates: in every iteration of each loop i
\* strictly increases or the loop is left, i never goes past the end of the
\* lines, and a line that stops the body loop or a capture without being
\* taken is examined once more, by the annotation loop, which takes it
C20_Terminates == [][C20_Step]_vars /\ []C20_Bounded

\* a STDOUT block without "## END" stopped by an N-I dash marker, which the
\* annotation loop then reads
C20_Witness ==
    /\ pc = "parsed"
    /\ lines = <<Header, StdoutOpen, Plain, NIDashBare>>
    /\ i = Len(lines) + 1
    /\ Len(cases) = 1 /\ cases[1].n_i_dash
    /\ cases[1].expect_stdout = Some(<<Plain>>)

====
